---------------------------- MODULE Spec2Model ----------------------------
(***************************************************************************)
(* Model of neural_control/environments/rendering.py: the Euler frame      *)
(* transforms with their per-instance cache, the Renderer (viewer          *)
(* lifecycle, scroll camera, drawing primitives) and the rendered bodies   *)
(* (Ground, QuadCopter, FixedWingDrone).                                   *)
(*                                                                         *)
(* Number representations                                                  *)
(*  - an angle is an index q: (q % 4) quarter turns plus (q \div 4) times  *)
(*    theta = atan(4/3), whose cosine and sine are the rationals 3/5, 4/5; *)
(*  - attitude and body geometry are exact rationals: the real-number      *)
(*    value of the numpy arithmetic, which the code's floats follow up to  *)
(*    rounding;                                                            *)
(*  - the scroll camera's center is a Python float: an IEEE-754 binary64   *)
(*    value <<sign, mantissa, exponent>> with a 53-bit mantissa held as a  *)
(*    little-endian sequence of 14-bit limbs, every operation rounded to   *)
(*    nearest, ties to even.                                               *)
(***************************************************************************)
EXTENDS Integers, Sequences, FiniteSets, TLC

None == <<>>

\* no exception raised
NoException == "None"

(***************************************************************************)
(* Natural numbers of any size: little-endian limb sequences, no leading   *)
(* zero limb; <<>> is 0.                                                   *)
(***************************************************************************)
LimbBits == 14
Base == 2^LimbBits

RECURSIVE BNorm(_)
BNorm(a) ==
  IF Len(a) > 0 /\ a[Len(a)] = 0 THEN BNorm(SubSeq(a, 1, Len(a) - 1)) ELSE a

Limb(a, i) == IF i <= Len(a) THEN a[i] ELSE 0

RECURSIVE BAddFrom(_, _, _, _)
BAddFrom(a, b, i, carry) ==
  IF i > Len(a) /\ i > Len(b)
  THEN (IF carry = 0 THEN <<>> ELSE <<carry>>)
  ELSE LET s == Limb(a, i) + Limb(b, i) + carry
       IN  <<s % Base>> \o BAddFrom(a, b, i + 1, s \div Base)

BAdd(a, b) == BNorm(BAddFrom(a, b, 1, 0))

RECURSIVE BSubFrom(_, _, _, _)
BSubFrom(a, b, i, borrow) ==
  IF i > Len(a)
  THEN <<>>
  ELSE LET d == Limb(a, i) - Limb(b, i) - borrow
       IN  IF d < 0
           THEN <<d + Base>> \o BSubFrom(a, b, i + 1, 1)
           ELSE <<d>> \o BSubFrom(a, b, i + 1, 0)

\* a - b for a >= b
BSub(a, b) == BNorm(BSubFrom(a, b, 1, 0))

RECURSIVE BCmpFrom(_, _, _)
BCmpFrom(a, b, i) ==
  IF i = 0 THEN 0
  ELSE IF a[i] > b[i] THEN 1
  ELSE IF a[i] < b[i] THEN -1
  ELSE BCmpFrom(a, b, i - 1)

\* -1, 0, 1 as a < b, a = b, a > b (both without leading zero limbs)
BCmp(a, b) ==
  IF Len(a) > Len(b) THEN 1
  ELSE IF Len(a) < Len(b) THEN -1
  ELSE BCmpFrom(a, b, Len(a))

RECURSIVE BMulLimbFrom(_, _, _, _)
BMulLimbFrom(a, d, i, carry) ==
  IF i > Len(a)
  THEN (IF carry = 0 THEN <<>> ELSE <<carry>>)
  ELSE LET p == a[i] * d + carry
       IN  <<p % Base>> \o BMulLimbFrom(a, d, i + 1, p \div Base)

\* a * d for one limb d
BMulLimb(a, d) == BNorm(BMulLimbFrom(a, d, 1, 0))

Zeros(n) == [i \in 1..n |-> 0]

RECURSIVE BMulFrom(_, _, _)
BMulFrom(a, b, i) ==
  IF i > Len(a)
  THEN <<>>
  ELSE BAdd(BNorm(Zeros(i - 1) \o BMulLimb(b, a[i])), BMulFrom(a, b, i + 1))

BMul(a, b) == BMulFrom(a, b, 1)

\* a * 2^k
BShl(a, k) ==
  BNorm(Zeros(k \div LimbBits) \o BMulLimb(a, 2^(k % LimbBits)))

\* a \div 2^k
BShr(a, k) ==
  LET q == k \div LimbBits
      r == k % LimbBits
      d == IF q >= Len(a) THEN <<>> ELSE SubSeq(a, q + 1, Len(a))
  IN  BNorm([i \in 1..Len(d) |->
               (d[i] \div 2^r) + (Limb(d, i + 1) % 2^r) * 2^(LimbBits - r)])

RECURSIVE IntBitLen(_)
IntBitLen(n) == IF n = 0 THEN 0 ELSE 1 + IntBitLen(n \div 2)

BBitLen(a) ==
  IF Len(a) = 0 THEN 0 ELSE (Len(a) - 1) * LimbBits + IntBitLen(a[Len(a)])

BOdd(a) == Len(a) > 0 /\ a[1] % 2 = 1

RECURSIVE BFromInt(_)
BFromInt(n) == IF n = 0 THEN <<>> ELSE <<n % Base>> \o BFromInt(n \div Base)

(***************************************************************************)
(* Python floats (binary64): <<sign, m, e>> is (-1)^sign * m * 2^e with m  *)
(* of exactly MantissaBits bits, or FZero.  Exponent overflow, subnormals, *)
(* infinities and NaN are outside the values the model feeds in.           *)
(***************************************************************************)
MantissaBits == 53

FZero == <<0, <<>>, 0>>

\* c places the dropped bits against one half: above it, or on it with q odd
RoundsUp(c, q) == c > 0 \/ (c = 0 /\ BOdd(q))

\* q = m \div 2^k, moved to the nearest of its neighbours, ties to even
Nearest(m, q, k) ==
  IF RoundsUp(BCmp(BSub(m, BShl(q, k)), BShl(<<1>>, k - 1)), q)
  THEN BAdd(q, <<1>>)
  ELSE q

\* a rounded mantissa that grew to MantissaBits + 1 bits is 2^MantissaBits
Renormal(q, e) ==
  IF BBitLen(q) > MantissaBits THEN <<BShr(q, 1), e + 1>> ELSE <<q, e>>

\* m of L bits
RoundBits(m, e, L) ==
  IF L <= MantissaBits
  THEN <<BShl(m, MantissaBits - L), e - (MantissaBits - L)>>
  ELSE Renormal(Nearest(m, BShr(m, L - MantissaBits), L - MantissaBits),
                e + (L - MantissaBits))

\* m * 2^e rounded to MantissaBits bits, nearest, ties to even
RoundNearestEven(m, e) == RoundBits(m, e, BBitLen(m))

Signed(sign, r) == <<sign, r[1], r[2]>>

FMake(sign, m, e) ==
  IF Len(m) = 0 THEN FZero ELSE Signed(sign, RoundNearestEven(m, e))

FFromInt(n) == FMake(IF n < 0 THEN 1 ELSE 0, BFromInt(IF n < 0 THEN -n ELSE n), 0)

FNeg(a) == IF a = FZero THEN FZero ELSE <<1 - a[1], a[2], a[3]>>

FMul(a, b) ==
  IF a = FZero \/ b = FZero THEN FZero
  ELSE FMake((a[1] + b[1]) % 2, BMul(a[2], b[2]), a[3] + b[3])

\* the sum of two mantissas ma, mb on one exponent e with signs sa, sb;
\* c compares ma with mb
FAddSigned(sa, sb, ma, mb, c, e) ==
  IF sa # sb /\ c = 0 THEN FZero
  ELSE FMake(IF sa = sb \/ c > 0 THEN sa ELSE sb,
             IF sa = sb THEN BAdd(ma, mb)
             ELSE IF c > 0 THEN BSub(ma, mb) ELSE BSub(mb, ma),
             e)

FAddAligned(sa, sb, ma, mb, e) == FAddSigned(sa, sb, ma, mb, BCmp(ma, mb), e)

FAddAt(a, b, e) ==
  FAddAligned(a[1], b[1], BShl(a[2], a[3] - e), BShl(b[2], b[3] - e), e)

FAdd(a, b) ==
  IF a = FZero THEN b
  ELSE IF b = FZero THEN a
  ELSE FAddAt(a, b, IF a[3] < b[3] THEN a[3] ELSE b[3])

FSub(a, b) == FAdd(a, FNeg(b))

RECURSIVE BDivLimbFrom(_, _, _, _)
BDivLimbFrom(a, d, i, rem) ==
  IF i = 0
  THEN <<<<>>, rem>>
  ELSE LET cur  == rem * Base + a[i]
           rest == BDivLimbFrom(a, d, i - 1, cur % d)
       IN  <<rest[1] \o <<cur \div d>>, rest[2]>>

\* <<a \div d, a % d>> for one limb d > 0
BDivLimb(a, d) == BDivLimbFrom(a, d, Len(a), 0)

RECURSIVE BToInt(_)
BToInt(a) == IF Len(a) = 0 THEN 0 ELSE a[1] + Base * BToInt(Tail(a))

\* the quotient with a sticky bit under it: set when the division left a rest
Sticky(qr) == BAdd(BShl(BNorm(qr[1]), 1), IF qr[2] = 0 THEN <<>> ELSE <<1>>)

\* a / d for an int d, 0 < d < Base: the quotient carries GuardBits more bits
\* than a and a sticky bit, then is rounded once
GuardBits == 70
FDivInt(a, d) ==
  IF a = FZero THEN FZero
  ELSE FMake(a[1], Sticky(BDivLimb(BShl(a[2], GuardBits), d)), a[3] - GuardBits - 1)

\* the float of the decimal literal n / d
FLit(n, d) == FDivInt(FFromInt(n), d)

\* round(a): the nearest int, ties to even
PyRound(a) ==
  IF a = FZero THEN 0
  ELSE (IF a[1] = 1 THEN -1 ELSE 1)
       * BToInt(IF a[3] >= 0 THEN BShl(a[2], a[3])
                ELSE Nearest(a[2], BShr(a[2], -a[3]), -a[3]))

(***************************************************************************)
(* Exact rationals <<numerator, denominator>>, denominator > 0, in lowest  *)
(* terms: the real-number value of the attitude and geometry arithmetic.   *)
(***************************************************************************)
Abs(n) == IF n < 0 THEN -n ELSE n

RECURSIVE Gcd(_, _)
Gcd(a, b) == IF b = 0 THEN a ELSE Gcd(b, a % b)

\* n / d, d > 0, brought to lowest terms by g
Lowest(n, d, g) == <<n \div g, d \div g>>

Q(n, d) == Lowest(IF d < 0 THEN -n ELSE n, Abs(d), Gcd(Abs(n), Abs(d)))

R(n) == <<n, 1>>

RAdd(a, b) == Q(a[1] * b[2] + b[1] * a[2], a[2] * b[2])
RNeg(a) == <<-a[1], a[2]>>
RSub(a, b) == RAdd(a, RNeg(b))
RMul(a, b) == Q(a[1] * b[1], a[2] * b[2])
RDiv(a, b) == Q(a[1] * b[2], a[2] * b[1])

(***************************************************************************)
(* 3x3 matrices (tuples of rows) and 3-vectors of rationals.               *)
(***************************************************************************)
Idx == 1..3

Identity == [i \in Idx |-> [j \in Idx |-> IF i = j THEN R(1) ELSE R(0)]]

Vec(x, y, z) == <<R(x), R(y), R(z)>>

\* np.transpose
Transpose(m) == [i \in Idx |-> [j \in Idx |-> m[j][i]]]

\* np.dot(matrix, vector)
Dot(m, v) ==
  [i \in Idx |->
     RAdd(RAdd(RMul(m[i][1], v[1]), RMul(m[i][2], v[2])), RMul(m[i][3], v[3]))]

\* matrix product, used by the properties only
MatMul(a, b) ==
  [i \in Idx |-> [j \in Idx |->
     RAdd(RAdd(RMul(a[i][1], b[1][j]), RMul(a[i][2], b[2][j])),
          RMul(a[i][3], b[3][j]))]]

\* elementwise sum of two arrays of one length
VecAdd(a, b) == [i \in DOMAIN a |-> RAdd(a[i], b[i])]
VecSub(a, b) == [i \in DOMAIN a |-> RSub(a[i], b[i])]

\* squared Euclidean length, used by the properties only
NormSq(a) == RAdd(RAdd(RMul(a[1], a[1]), RMul(a[2], a[2])), RMul(a[3], a[3]))

(***************************************************************************)
(* Angles with exact cosine and sine.  Angle q is (q % 4) quarter turns    *)
(* plus (q \div 4) times theta, theta = atan(4/3), cos theta = 3/5 and     *)
(* sin theta = 4/5; so 0..3 are the multiples of pi/2.                     *)
(***************************************************************************)
QuarterCos(k) == CASE k % 4 = 0 -> R(1) [] k % 4 = 1 -> R(0) [] k % 4 = 2 -> R(-1) [] OTHER -> R(0)
QuarterSin(k) == CASE k % 4 = 0 -> R(0) [] k % 4 = 1 -> R(1) [] k % 4 = 2 -> R(0) [] OTHER -> R(-1)

\* cos and sin of n times theta (n = 0, 1; 2 theta beyond)
ThetaCos(n) == CASE n = 0 -> R(1) [] n = 1 -> Q(3, 5) [] OTHER -> Q(-7, 25)
ThetaSin(n) == CASE n = 0 -> R(0) [] n = 1 -> Q(4, 5) [] OTHER -> Q(24, 25)

\* np.cos, np.sin
Cos(q) ==
  RSub(RMul(QuarterCos(q), ThetaCos(q \div 4)), RMul(QuarterSin(q), ThetaSin(q \div 4)))
Sin(q) ==
  RAdd(RMul(QuarterSin(q), ThetaCos(q \div 4)), RMul(QuarterCos(q), ThetaSin(q \div 4)))

(***************************************************************************)
(* Euler (neural_control.environments.copter): roll, pitch, yaw and a      *)
(* cache keyed by string.  An assignment to an angle leaves the cache as   *)
(* it is.                                                                  *)
(***************************************************************************)
MaxAngle == 4
Angles == 0..MaxAngle

EmptyCache == [k \in {} |-> None]

Euler(roll, pitch, yaw) ==
  [roll |-> roll, pitch |-> pitch, yaw |-> yaw, cache |-> EmptyCache]

get_from_cache(e, key) == IF key \in DOMAIN e.cache THEN e.cache[key] ELSE None

add_to_cache(e, key, value) ==
  [e EXCEPT !.cache = [k \in DOMAIN e.cache \cup {key} |->
                         IF k = key THEN value ELSE e.cache[k]]]

(***************************************************************************)
(* Frame transforms.  Each returns [ret, euler, computed]: the value       *)
(* returned, the Euler instance as the call leaves it, and the number of   *)
(* times the rotation matrix was built from the angles during the call.    *)
(***************************************************************************)
\* faulty variant: the first entry takes sin(pitch) for cos(pitch)
MatrixSinForCos(Cy, Sy, Cp, Sp, Cr, Sr) ==
  << <<RMul(Cy, Sp), RMul(Sy, Cp), RNeg(Sp)>>,
     <<RSub(RMul(RMul(Cy, Sp), Sr), RMul(Cr, Sy)),
       RAdd(RMul(Cr, Cy), RMul(RMul(Sr, Sy), Sp)),
       RMul(Cp, Sr)>>,
     <<RAdd(RMul(RMul(Cy, Sp), Cr), RMul(Sr, Sy)),
       RSub(RMul(RMul(Cr, Sy), Sp), RMul(Cy, Sr)),
       RMul(Cr, Cp)>> >>

\* faulty variant: the yaw turns the other way (sin(yaw) negated)
MatrixYawReversed(Cy, Sy, Cp, Sp, Cr, Sr) ==
  << <<RMul(Cy, Cp), RMul(RNeg(Sy), Cp), RNeg(Sp)>>,
     <<RAdd(RMul(RMul(Cy, Sp), Sr), RMul(Cr, Sy)),
       RSub(RMul(Cr, Cy), RMul(RMul(Sr, Sy), Sp)),
       RMul(Cp, Sr)>>,
     <<RSub(RMul(RMul(Cy, Sp), Cr), RMul(Sr, Sy)),
       RSub(RMul(RNeg(RMul(Cr, Sy)), Sp), RMul(Cy, Sr)),
       RMul(Cr, Cp)>> >>

\* the matrix of world_to_body_matrix from the six values of its cos and sin
Matrix(Cy, Sy, Cp, Sp, Cr, Sr) ==
  << <<RMul(Cy, Cp), RMul(Sy, Cp), RNeg(Sp)>>,
     <<RSub(RMul(RMul(Cy, Sp), Sr), RMul(Cr, Sy)),
       RAdd(RMul(Cr, Cy), RMul(RMul(Sr, Sy), Sp)),
       RMul(Cp, Sr)>>,
     <<RAdd(RMul(RMul(Cy, Sp), Cr), RMul(Sr, Sy)),
       RSub(RMul(RMul(Cr, Sy), Sp), RMul(Cy, Sr)),
       RMul(Cr, Cp)>> >>

RotationMatrix(roll, pitch, yaw) ==
  Matrix(Cos(yaw), Sin(yaw), Cos(pitch), Sin(pitch), Cos(roll), Sin(roll))

\* faulty variant: the matrix just built is returned and not stored
ComputedNotStored(matrix, euler) == [ret |-> matrix, euler |-> euler, computed |-> 1]

\* the cache miss: the matrix just built is stored and returned
Computed(matrix, euler) ==
  [ret |-> matrix, euler |-> add_to_cache(euler, "world_to_body", matrix),
   computed |-> 1]

\* faulty variant: the cache entry is ignored, the matrix built on every call
CachedNever(matrix, euler) ==
  Computed(RotationMatrix(euler.roll, euler.pitch, euler.yaw), euler)

\* matrix: what the cache gave
Cached(matrix, euler) ==
  IF matrix # None
  THEN [ret |-> matrix, euler |-> euler, computed |-> 0]
  ELSE Computed(RotationMatrix(euler.roll, euler.pitch, euler.yaw), euler)

world_to_body_matrix(euler) == Cached(get_from_cache(euler, "world_to_body"), euler)

\* faulty variant: the world-to-body matrix is returned as it is
NotTransposed(wtb) == wtb

\* faulty variant: the transpose is kept in the cache under a key of its own
TransposedStored(wtb) ==
  [ret |-> Transpose(wtb.ret),
   euler |-> add_to_cache(wtb.euler, "body_to_world", Transpose(wtb.ret)),
   computed |-> wtb.computed]

\* wtb: the outcome of world_to_body_matrix
Transposed(wtb) ==
  [ret |-> Transpose(wtb.ret), euler |-> wtb.euler, computed |-> wtb.computed]

body_to_world_matrix(euler) == Transposed(world_to_body_matrix(euler))

\* btw: the outcome of body_to_world_matrix
Applied(btw, vector) ==
  [ret |-> Dot(btw.ret, vector), euler |-> btw.euler, computed |-> btw.computed]

body_to_world(euler, vector) == Applied(body_to_world_matrix(euler), vector)

(***************************************************************************)
(* The drawing surface: gym's rendering.Viewer.  A viewer holds its bounds *)
(* and the one-time geometries added since it last rendered a frame;       *)
(* Viewer.render shows them and empties the list.  A geometry's field      *)
(* `given` keeps the 3D points the Renderer was handed for it (None when   *)
(* it was handed 2D points).                                               *)
(***************************************************************************)
Viewer == [bounds |-> None, onetime |-> <<>>]

Line(start, end, color) ==
  [kind |-> "line", start |-> start, end |-> end, color |-> color, given |-> None]

Circle(translation, radius, color, filled) ==
  [kind |-> "circle", translation |-> translation, radius |-> radius,
   color |-> color, filled |-> filled, given |-> None]

Polygon(v, filled) ==
  [kind |-> "polygon", v |-> v, filled |-> filled, given |-> None]

\* statement order: `done` is evaluated in full before `next`
Then(done, next) == IF done = done THEN next ELSE next

add_onetime(self, geom) ==
  [self EXCEPT !.viewer.onetime = Append(@, geom)]

\* notes on the geometry added last the 3D points it was drawn from
Given(self, points) ==
  [self EXCEPT !.viewer.onetime[Len(self.viewer.onetime)].given = points]

Black == <<0, 0, 0>>

(***************************************************************************)
(* Renderer: [viewer, center, scroll_speed, objects].  The drawing methods *)
(* are used with a viewer present.                                         *)
(***************************************************************************)
Renderer ==
  [viewer |-> None, center |-> None, scroll_speed |-> FLit(1, 10), objects |-> <<>>]

draw_line_2d(self, start, end, color) == add_onetime(self, Line(start, end, color))

\* faulty variant: the last coordinate is dropped in place of the middle one
draw_line_3d_xy(self, start, end, color) ==
  Given(draw_line_2d(self, <<start[1], start[2]>>, <<end[1], end[2]>>, color),
        <<start, end>>)

draw_line_3d(self, start, end, color) ==
  Given(draw_line_2d(self, <<start[1], start[3]>>, <<end[1], end[3]>>, color),
        <<start, end>>)

draw_circle(self, position, radius, color, filled) ==
  IF Len(position) = 3
  THEN Given(add_onetime(self, Circle(<<position[1], position[3]>>, radius, color, filled)),
             <<position>>)
  ELSE add_onetime(self, Circle(position, radius, color, filled))

draw_polygon(self, v, filled) == add_onetime(self, Polygon(v, filled))

add_object(self, new) == [self EXCEPT !.objects = Append(@, new)]

\* the center moved to `center`, the viewer's bounds following it
Centered(self, center) ==
  IF self.viewer # None
  THEN [self EXCEPT !.center = center,
                    !.viewer.bounds = <<FAdd(FFromInt(-7), center),
                                        FAdd(FFromInt(7), center), -1, 13>>]
  ELSE [self EXCEPT !.center = center]

\* the soft update from `center`
Scrolled(self, center, new_center) ==
  Centered(self, FAdd(FMul(FSub(FFromInt(1), self.scroll_speed), center),
                      FMul(self.scroll_speed, new_center)))

set_center(self, new_center) ==
  IF new_center = None
  THEN [self EXCEPT !.center = None]
  ELSE Scrolled(self, IF self.center = None THEN new_center ELSE self.center,
                new_center)

setup(self) ==
  IF self.viewer = None THEN [self EXCEPT !.viewer = Viewer] ELSE self

close(self) ==
  IF self.viewer # None THEN [self EXCEPT !.viewer = None] ELSE self

(***************************************************************************)
(* Rendered bodies.  A draw works on a scene [rd, quad, fw, fwState, exc,  *)
(* calls, shown]: the renderer, the two bodies' sources, the exception the *)
(* operation raised (NoException when none), its draw calls as             *)
(* <<index in objects, viewer present>> and the frame it had the viewer    *)
(* show (None when none).                                                  *)
(***************************************************************************)
step_size == 2

\* range(-8, 10, step)
GroundTicks(step) == [j \in 1..((17 \div step) + 1) |-> -8 + (j - 1) * step]

RECURSIVE GroundLines(_, _, _, _)
GroundLines(self, pos, ticks, j) ==
  IF j > Len(ticks) THEN self
  ELSE Then(self, GroundLines(draw_line_2d(self, <<pos + ticks[j], FZero>>,
                                           <<pos + ticks[j] - 2, FFromInt(-2)>>, Black),
                              pos, ticks, j + 1))

Ground_draw(sc) ==
  IF sc.rd.center = None
  THEN [sc EXCEPT !.exc = "TypeError"]
  ELSE [sc EXCEPT !.rd =
          GroundLines(draw_line_2d(sc.rd, <<FAdd(FFromInt(-10), sc.rd.center), FZero>>,
                                   <<FAdd(FFromInt(10), sc.rd.center), FZero>>, Black),
                      PyRound(FDivInt(sc.rd.center, step_size)) * step_size,
                      GroundTicks(step_size), 1)]

\* [rd, euler]: the renderer and the Euler instance after the propeller is drawn
draw_propeller_thrust(renderer, hub, thrust_line) ==
  [rd |-> draw_line_3d(renderer, hub, VecAdd(hub, thrust_line.ret), Black),
   euler |-> thrust_line.euler]

\* faulty variant: the thrust grows with the rotor speed, not with its square
draw_propeller_hub_linear(renderer, euler, position, hub, rotor_speed) ==
  draw_propeller_thrust(
    draw_circle(draw_line_3d(renderer, position, hub, Black), hub, Q(1, 10), Black, TRUE),
    hub,
    body_to_world(euler, <<R(0), R(0), RMul(Q(-1, 2), rotor_speed)>>))

\* hub: position + structure_line
draw_propeller_hub(renderer, euler, position, hub, rotor_speed) ==
  draw_propeller_thrust(
    draw_circle(draw_line_3d(renderer, position, hub, Black), hub, Q(1, 10), Black, TRUE),
    hub,
    body_to_world(euler, <<R(0), R(0), RMul(Q(-1, 2), RMul(rotor_speed, rotor_speed))>>))

draw_propeller_arm(renderer, structure_line, position, rotor_speed) ==
  draw_propeller_hub(renderer, structure_line.euler, position,
                     VecAdd(position, structure_line.ret), rotor_speed)

draw_propeller(renderer, euler, position, propeller_position, rotor_speed) ==
  draw_propeller_arm(renderer, body_to_world(euler, propeller_position), position,
                     rotor_speed)

PropellerPositions == <<Vec(1, 0, 0), Vec(0, 1, 0), Vec(-1, 0, 0), Vec(0, -1, 0)>>

\* the four draw_propeller calls from the i-th on; st is [rd, euler]
RECURSIVE DrawPropellers(_, _, _)
DrawPropellers(st, src, i) ==
  IF i > Len(PropellerPositions) THEN st
  ELSE Then(st, DrawPropellers(
                  draw_propeller(st.rd, st.euler, src.position, PropellerPositions[i],
                                 RDiv(src.rotor_speeds[i], src.max_rotor_speed)),
                  src, i + 1))

\* drawn: [rd, euler] after the last propeller
QuadCopter_drawn(sc, drawn) ==
  Then(drawn, [sc EXCEPT !.rd = drawn.rd, !.quad.attitude = drawn.euler])

QuadCopter_frame(sc, rotated) ==
  QuadCopter_drawn(sc,
    DrawPropellers([rd |-> draw_line_3d(sc.rd, sc.quad.position,
                                        VecAdd(sc.quad.position, rotated.ret), Black),
                    euler |-> rotated.euler],
                   sc.quad, 1))

QuadCopter_draw(sc) ==
  QuadCopter_frame(sc, body_to_world(sc.quad.attitude, <<R(0), R(0), Q(1, 2)>>))

FixedWingDrone == [target |-> <<R(100), R(0)>>, x_normalize |-> None]

set_target(self, target) ==
  [self EXCEPT !.target = target, !.x_normalize = RDiv(R(14), target[1])]

\* (np.array(points) + offset) * scale
PlaneCoords(points, offset, scale) ==
  [i \in DOMAIN points |-> [k \in Idx |-> RMul(RAdd(points[i][k], offset[k]), scale)]]

coord_plane ==
  PlaneCoords(<< Vec(1, 0, 1), <<R(1), R(0), Q(33, 10)>>, Vec(2, 0, 2),
                 <<Q(11, 2), R(0), R(2)>>, <<R(5), R(0), Q(5, 2)>>,
                 <<Q(9, 2), R(0), R(2)>>, Vec(8, 0, 2), Vec(10, 0, 1), Vec(1, 0, 1) >>,
              <<R(-5), R(0), Q(-3, 2)>>, Q(3, 10))

coord_wing ==
  PlaneCoords(<< <<R(4), R(0), Q(3, 2)>>, Vec(5, 0, 0), <<R(6), R(0), Q(3, 2)>> >>,
              <<R(-5), R(0), Q(-3, 2)>>, Q(3, 10))

\* (np.array([np.dot(rot_matrix, coord) for coord in coords]) + position)
Rotated(rot_matrix, coords, position) ==
  [i \in DOMAIN coords |-> VecAdd(Dot(rot_matrix, coords[i]), position)]

\* points[:, [0, 2]]
Columns02(points) == [i \in DOMAIN points |-> <<points[i][1], points[i][3]>>]

\* renderer.draw_polygon(points[:, [0, 2]])
draw_airplane_part(renderer, points) ==
  Given(draw_polygon(renderer, Columns02(points), FALSE), points)

draw_airplane_rotated(renderer, position, rot_matrix) ==
  draw_airplane_part(
    Then(renderer, draw_airplane_part(renderer, Rotated(rot_matrix, coord_plane, position))),
    Rotated(rot_matrix, coord_wing, position))

draw_airplane(renderer, position, euler) ==
  draw_airplane_rotated(renderer, position, body_to_world_matrix(euler).ret)

FixedWingDrone_draw(sc) ==
  IF sc.fw.x_normalize = None
  THEN [sc EXCEPT !.exc = "AttributeError"]
  ELSE [sc EXCEPT !.rd =
          draw_airplane(
            draw_circle(sc.rd, <<Q(34, 5), RMul(sc.fw.target[2], R(-1))>>,
                        Q(1, 5), <<0, 1, 0>>, TRUE),
            <<RAdd(R(-7), RMul(sc.fwState[1], sc.fw.x_normalize)), R(0),
              RMul(sc.fwState[2], R(-1))>>,
            Euler(0, sc.fwState[5], 0))]

\* draw_ob.draw(self) for the body registered under `kind`
Draw(kind, sc) ==
  CASE kind = "Ground" -> Ground_draw(sc)
    [] kind = "QuadCopter" -> QuadCopter_draw(sc)
    [] OTHER -> FixedWingDrone_draw(sc)

\* the draws of the objects from the i-th on; a raised exception ends them
RECURSIVE DrawObjects(_, _)
DrawObjects(sc, i) ==
  IF i > Len(sc.rd.objects) \/ sc.exc # NoException THEN sc
  ELSE DrawObjects(
         Draw(sc.rd.objects[i],
              [sc EXCEPT !.calls = Append(@, <<i, sc.rd.viewer # None>>)]),
         i + 1)

\* self.viewer.render(...): the frame is shown, the one-time list emptied
ViewerRender(sc) ==
  [sc EXCEPT !.shown = sc.rd.viewer.onetime, !.rd.viewer.onetime = <<>>]

\* drawn: the scene after the objects' draws
render_frame(drawn) == IF drawn.exc # NoException THEN drawn ELSE ViewerRender(drawn)

render(sc, closing) ==
  IF closing
  THEN [sc EXCEPT !.rd = close(sc.rd)]
  ELSE render_frame(DrawObjects([sc EXCEPT !.rd = setup(sc.rd)], 1))

(***************************************************************************)
(* State.                                                                  *)
(*  euler          the Euler instance under the frame-transform calls      *)
(*  ret, op, arg   the last call on it: value returned, name, vector given *)
(*  prevEuler      the instance as it was before the last call             *)
(*  computedCount  times its rotation matrix was built from the angles     *)
(*  cachedAngles   <<roll, pitch, yaw>> when its cache entry was stored    *)
(*  returned       the matrices world_to_body_matrix has returned for it   *)
(*  mutations      angle assignments made on it since construction         *)
(***************************************************************************)
VARIABLES euler, ret, op, arg, prevEuler, computedCount, cachedAngles,
          returned, mutations

(***************************************************************************)
(*  scene      the renderer, the bodies' sources and the record of the     *)
(*             last operation's draws (see Rendered bodies)                *)
(*  prevScene  the scene before the last operation                         *)
(*  rop, rarg  the last operation on the scene and its argument            *)
(*  updates    set_center calls with a target since the center was unset   *)
(***************************************************************************)
VARIABLES scene, prevScene, rop, rarg, updates

sceneVars == <<scene, prevScene, rop, rarg, updates>>

eulerVars == <<euler, ret, op, arg, prevEuler, computedCount, cachedAngles,
               returned, mutations>>

MaxMutations == 1

\* direction vectors handed to body_to_world
Vectors == {Vec(1, 0, 0), <<R(0), R(0), Q(1, 2)>>, Vec(1, -2, 3)}

AnglesOf(e) == <<e.roll, e.pitch, e.yaw>>

InitEulerWith(instances) ==
  /\ euler \in instances
  /\ ret = None
  /\ op = "Euler"
  /\ arg = None
  /\ prevEuler = euler
  /\ computedCount = 0
  /\ cachedAngles = None
  /\ returned = {}
  /\ mutations = 0

\* the caller assigns euler.roll, euler.pitch or euler.yaw
AssignAngle ==
  \E f \in {"roll", "pitch", "yaw"}, v \in Angles :
    /\ mutations < MaxMutations
    /\ euler[f] # v
    /\ euler' = [euler EXCEPT ![f] = v]
    /\ prevEuler' = euler
    /\ op' = "assign"
    /\ ret' = None
    /\ arg' = None
    /\ mutations' = mutations + 1
    /\ UNCHANGED <<computedCount, cachedAngles, returned>>
    /\ UNCHANGED sceneVars

\* bookkeeping shared by the three calls; r is the call's [ret, euler, computed]
Called(name, a, r) ==
  /\ euler' = r.euler
  /\ ret' = r.ret
  /\ op' = name
  /\ arg' = a
  /\ prevEuler' = euler
  /\ computedCount' = computedCount + r.computed
  /\ cachedAngles' =
       IF "world_to_body" \notin DOMAIN euler.cache
          /\ "world_to_body" \in DOMAIN r.euler.cache
       THEN AnglesOf(euler)
       ELSE cachedAngles
  /\ returned' =
       IF name = "world_to_body_matrix" THEN returned \cup {r.ret} ELSE returned
  /\ UNCHANGED mutations
  /\ UNCHANGED sceneVars

CallWorldToBodyMatrix ==
  Called("world_to_body_matrix", None, world_to_body_matrix(euler))

CallBodyToWorldMatrix ==
  Called("body_to_world_matrix", None, body_to_world_matrix(euler))

CallBodyToWorld ==
  \E v \in Vectors : Called("body_to_world", v, body_to_world(euler, v))

(***************************************************************************)
(* The scene's operations.                                                 *)
(***************************************************************************)
MaxObjects == 2
MaxUpdates == 2
MaxPending == 4
MaxRotorSpeed == 2

Kinds == {"Ground", "QuadCopter", "FixedWingDrone"}

\* targets of the scroll camera
CameraTargets == {FLit(3, 10), FFromInt(1), FLit(-42, 10)}
SceneTargets == {FLit(3, 10)}

\* targets of the fixed-wing body, target[0] # 0
WingTargets == {<<R(50), R(2)>>}

QuadSource(position, attitude, rotor_speeds) ==
  [position |-> position, attitude |-> attitude, rotor_speeds |-> rotor_speeds,
   max_rotor_speed |-> R(MaxRotorSpeed)]

\* rotor speeds: every rotor takes every speed 0..MaxRotorSpeed
RotorSpeeds ==
  {[i \in 1..4 |-> R((k + i) % (MaxRotorSpeed + 1))] : k \in 0..MaxRotorSpeed}

QuadPositions == {<<Q(3, 2), R(-2), R(5)>>}

QuadAttitudes == {Euler(r, p, y) : r \in Angles, p \in {0, 1}, y \in {0, 4}}

QuadSources ==
  {QuadSource(p, e, w) : p \in QuadPositions, e \in QuadAttitudes, w \in RotorSpeeds}

\* the flattened fixed-wing state: [0] forward progress, [1] altitude, [4] pitch
WingStates ==
  {<<R(x), R(h), R(0), R(0), t>> : x \in {0, 50}, h \in {0, 3}, t \in Angles}

DefaultQuad == QuadSource(<<Q(3, 2), R(-2), R(5)>>, Euler(1, 0, 4), <<R(0), R(1), R(2), R(1)>>)
DefaultWing == <<R(50), R(3), R(0), R(0), 4>>

Scene(objects, quad, fw, fwState) ==
  [rd |-> [Renderer EXCEPT !.objects = objects], quad |-> quad, fw |-> fw,
   fwState |-> fwState, exc |-> NoException, calls |-> <<>>, shown |-> None]

InitSceneWith(sc) ==
  /\ scene = sc
  /\ prevScene = sc
  /\ rop = "Renderer"
  /\ rarg = None
  /\ updates = 0

\* an operation starts with no exception raised, no draw made, no frame shown
Begin == [scene EXCEPT !.exc = NoException, !.calls = <<>>, !.shown = None]

Did(name, a, sc) ==
  /\ scene' = sc
  /\ prevScene' = Begin
  /\ rop' = name
  /\ rarg' = a
  /\ UNCHANGED eulerVars

AddObject ==
  \E kind \in Kinds :
    /\ Len(scene.rd.objects) < MaxObjects
    /\ Did("add_object", kind, [Begin EXCEPT !.rd = add_object(@, kind)])
    /\ UNCHANGED updates

ResetCenter ==
  /\ Did("set_center", None, [Begin EXCEPT !.rd = set_center(@, None)])
  /\ updates' = 0

SetCenter(targets) ==
  \E t \in targets :
    /\ updates < MaxUpdates
    /\ Did("set_center", t, [Begin EXCEPT !.rd = set_center(@, t)])
    /\ updates' = updates + 1

Setup ==
  /\ Did("setup", None, [Begin EXCEPT !.rd = setup(@)])
  /\ UNCHANGED updates

\* frames are rendered while fewer than MaxPending geometries wait in the viewer
Render ==
  /\ scene.rd.viewer # None => Len(scene.rd.viewer.onetime) < MaxPending
  /\ Did("render", FALSE, render(Begin, FALSE))
  /\ UNCHANGED updates

RenderClose ==
  /\ Did("render", TRUE, render(Begin, TRUE))
  /\ UNCHANGED updates

Close ==
  /\ Did("close", None, [Begin EXCEPT !.rd = close(@)])
  /\ UNCHANGED updates

SetTarget ==
  \E t \in WingTargets :
    /\ Did("set_target", t, [Begin EXCEPT !.fw = set_target(@, t)])
    /\ UNCHANGED updates

(***************************************************************************)
(* Specifications.                                                         *)
(*  SpecEuler     one Euler instance under the frame-transform calls       *)
(*  SpecCamera    the scroll camera and the viewer it sets the bounds of   *)
(*  SpecRenderer  the renderer's life: objects, viewer, frames             *)
(*  SpecDraw      frames of the quadcopter and the fixed-wing drone, over  *)
(*                the bodies' states                                       *)
(***************************************************************************)
vars == <<eulerVars, sceneVars>>

IdleScene == Scene(<<>>, DefaultQuad, FixedWingDrone, DefaultWing)

InitEuler ==
  /\ InitEulerWith({Euler(r, p, y) : r \in Angles, p \in Angles, y \in Angles})
  /\ InitSceneWith(IdleScene)

NextEuler ==
  \/ AssignAngle
  \/ CallWorldToBodyMatrix
  \/ CallBodyToWorldMatrix
  \/ CallBodyToWorld

SpecEuler == InitEuler /\ [][NextEuler]_vars

InitCamera ==
  /\ InitEulerWith({Euler(0, 0, 0)})
  /\ InitSceneWith(IdleScene)

SetCameraCenter == SetCenter(CameraTargets)

NextCamera ==
  \/ ResetCenter
  \/ SetCameraCenter
  \/ Setup
  \/ Close

SpecCamera == InitCamera /\ [][NextCamera]_vars

SetSceneCenter == SetCenter(SceneTargets)

NextRenderer ==
  \/ AddObject
  \/ ResetCenter
  \/ SetSceneCenter
  \/ Setup
  \/ Render
  \/ RenderClose
  \/ Close
  \/ SetTarget

SpecRenderer == InitCamera /\ [][NextRenderer]_vars

DrawScenes ==
  {Scene(<<"QuadCopter">>, q, FixedWingDrone, DefaultWing) : q \in QuadSources}
    \cup {Scene(<<"FixedWingDrone">>, DefaultQuad, FixedWingDrone, w) : w \in WingStates}
    \cup {Scene(<<"QuadCopter", "FixedWingDrone">>, DefaultQuad, FixedWingDrone, w) :
            w \in WingStates}

InitDraw ==
  /\ InitEulerWith({Euler(0, 0, 0)})
  /\ \E sc \in DrawScenes : InitSceneWith(sc)

NextDraw ==
  \/ Render
  \/ SetTarget

SpecDraw == InitDraw /\ [][NextDraw]_vars
(***************************************************************************)
(* Properties.                                                             *)
(***************************************************************************)
Key == "world_to_body"

HasEntry(e) == Key \in DOMAIN e.cache

FrameCalls == {"world_to_body_matrix", "body_to_world_matrix", "body_to_world"}

\* the matrix built from the angles <<roll, pitch, yaw>>
MatrixAt(angles) == RotationMatrix(angles[1], angles[2], angles[3])

(***************************************************************************)
(* C1  Memoization.  While the angles of the instance are unchanged: a     *)
(* new instance has no entry; the first frame-transform call builds the    *)
(* matrix of the angles, stores it under "world_to_body" and returns it;   *)
(* every later call leaves the instance as it is and returns the stored    *)
(* matrix, so the matrix is built at most once and world_to_body_matrix    *)
(* has returned one value only.                                            *)
(***************************************************************************)
C1_ComputedOnce ==
  mutations = 0 =>
    /\ computedCount <= 1
    /\ Cardinality(returned) <= 1
    /\ op = "Euler" => ~HasEntry(euler) /\ computedCount = 0
    /\ op \in FrameCalls =>
         /\ HasEntry(euler)
         /\ computedCount = 1
         /\ euler.cache[Key] = MatrixAt(AnglesOf(euler))
         /\ op = "world_to_body_matrix" => ret = euler.cache[Key]
         /\ op = "body_to_world_matrix" => ret = Transpose(euler.cache[Key])
         /\ HasEntry(prevEuler) => euler = prevEuler

\* a world_to_body_matrix call that found the entry of an earlier call
C1_SecondCall ==
  /\ mutations = 0
  /\ op = "world_to_body_matrix"
  /\ HasEntry(prevEuler)
  /\ computedCount = 1
  /\ ret = MatrixAt(AnglesOf(euler))

(***************************************************************************)
(* C2  Stale cache.  A world_to_body_matrix call on an instance that has   *)
(* an entry and whose angles were assigned since returns the entry, the    *)
(* matrix of the angles at the time it was stored, and leaves the instance *)
(* as it is.                                                               *)
(***************************************************************************)
C2_StaleReturned ==
  (op = "world_to_body_matrix" /\ mutations > 0 /\ HasEntry(prevEuler)) =>
    /\ cachedAngles # None
    /\ ret = MatrixAt(cachedAngles)
    /\ ret = prevEuler.cache[Key]
    /\ euler = prevEuler

\* the returned matrix is the old angles' and not the current angles'
C2_StaleDiffers ==
  /\ op = "world_to_body_matrix"
  /\ mutations > 0
  /\ HasEntry(prevEuler)
  /\ cachedAngles # AnglesOf(euler)
  /\ ret = MatrixAt(cachedAngles)
  /\ ret # MatrixAt(AnglesOf(euler))

(***************************************************************************)
(* C4  Pure yaw of a quarter turn, Euler(0, 0, pi/2).  As stated: the      *)
(* matrix of world_to_body_matrix takes [1,0,0] to [0,1,0].                *)
(***************************************************************************)
C4_WorldToBodyForward ==
  (op = "world_to_body_matrix" /\ mutations = 0 /\ AnglesOf(euler) = <<0, 0, 1>>) =>
    Dot(ret, Vec(1, 0, 0)) = Vec(0, 1, 0)

(***************************************************************************)
(* C4  as amended: body_to_world takes the body-forward vector [1,0,0] to  *)
(* the world vector [0,1,0].                                               *)
(***************************************************************************)
C4_BodyToWorldForward ==
  (op = "body_to_world" /\ mutations = 0 /\ AnglesOf(euler) = <<0, 0, 1>>
     /\ arg = Vec(1, 0, 0)) =>
    ret = Vec(0, 1, 0)

C4_ForwardTransformed ==
  /\ op = "body_to_world"
  /\ mutations = 0
  /\ AnglesOf(euler) = <<0, 0, 1>>
  /\ arg = Vec(1, 0, 0)
  /\ ret = Vec(0, 1, 0)

(***************************************************************************)
(* C5  Transpose.  What body_to_world_matrix returns is, entry by entry,   *)
(* the transpose of what world_to_body_matrix returns for the instance,    *)
(* whether the call found the entry or built it.                           *)
(***************************************************************************)
C5_Transpose ==
  op = "body_to_world_matrix" =>
    \A i \in Idx, j \in Idx : ret[i][j] = world_to_body_matrix(euler).ret[j][i]

\* a body_to_world_matrix call that found the entry, on a matrix that is not
\* its own transpose
C5_CachedTransposed ==
  /\ op = "body_to_world_matrix"
  /\ HasEntry(prevEuler)
  /\ ret # prevEuler.cache[Key]
  /\ \A i \in Idx, j \in Idx : ret[i][j] = prevEuler.cache[Key][j][i]

(***************************************************************************)
(* C6  Orthonormality.  The matrix M of world_to_body_matrix satisfies     *)
(* transpose(M) * M = identity, and M takes body_to_world(e, v) back to v. *)
(***************************************************************************)
C6_Orthonormal ==
  /\ op = "world_to_body_matrix" => MatMul(Transpose(ret), ret) = Identity
  /\ op = "body_to_world" => Dot(world_to_body_matrix(euler).ret, ret) = arg

\* a round trip under an attitude with no angle a multiple of pi/2
C6_RoundTrip ==
  /\ op = "body_to_world"
  /\ mutations = 0
  /\ AnglesOf(euler) = <<4, 4, 4>>
  /\ arg = Vec(1, -2, 3)
  /\ ret # arg
  /\ Dot(world_to_body_matrix(euler).ret, ret) = arg

(***************************************************************************)
(* C9  Single slot.  The cache of the instance holds no key other than     *)
(* "world_to_body"; an entry once stored stays, with its value; a call     *)
(* that finds the entry leaves the instance as it is.                      *)
(***************************************************************************)
C9_SingleSlot ==
  /\ DOMAIN euler.cache \subseteq {Key}
  /\ HasEntry(prevEuler) => HasEntry(euler) /\ euler.cache[Key] = prevEuler.cache[Key]
  /\ (op \in FrameCalls /\ HasEntry(prevEuler)) => euler = prevEuler

\* body_to_world_matrix called twice: the cache still holds the one entry
C9_OneEntryAfterTranspose ==
  /\ op = "body_to_world_matrix"
  /\ HasEntry(prevEuler)
  /\ DOMAIN euler.cache = {Key}
  /\ ret = Transpose(euler.cache[Key])

(***************************************************************************)
(* C3  Scroll camera.  A set_center(T) on an unset center leaves the       *)
(* center equal to T; on a set center it leaves 0.9 * center + 0.1 * T.    *)
(***************************************************************************)
C3_SnapThenSmooth ==
  (rop = "set_center" /\ rarg # None) =>
    scene.rd.center =
      IF prevScene.rd.center = None
      THEN rarg
      ELSE FAdd(FMul(FLit(9, 10), prevScene.rd.center), FMul(FLit(1, 10), rarg))

(***************************************************************************)
(* C7  Projection.  Every geometry drawn from 3D points carries their      *)
(* (x, z): both ends of a line, the position of a circle, every vertex of  *)
(* a polygon.                                                              *)
(***************************************************************************)
Projected(point) == <<point[1], point[3]>>

ProjectionOf(g) ==
  g.given # None =>
    CASE g.kind = "line" ->
           g.start = Projected(g.given[1]) /\ g.end = Projected(g.given[2])
      [] g.kind = "circle" -> g.translation = Projected(g.given[1])
      [] OTHER ->
           /\ Len(g.v) = Len(g.given)
           /\ \A i \in DOMAIN g.v : g.v[i] = Projected(g.given[i])

\* the geometries of the frame shown last and those waiting in the viewer
Drawn ==
  (IF scene.shown = None THEN <<>> ELSE scene.shown)
    \o (IF scene.rd.viewer = None THEN <<>> ELSE scene.rd.viewer.onetime)

C7_Projection == \A i \in DOMAIN Drawn : ProjectionOf(Drawn[i])

\* a frame with a line, a circle and a polygon drawn from 3D points whose
\* middle coordinate differs from the last
C7_FrameProjected ==
  /\ rop = "render"
  /\ scene.shown # None
  /\ \A k \in {"line", "circle", "polygon"} :
       \E i \in DOMAIN scene.shown :
         /\ scene.shown[i].kind = k
         /\ scene.shown[i].given # None
         /\ scene.shown[i].given[1][2] # scene.shown[i].given[1][3]
         /\ ProjectionOf(scene.shown[i])

(***************************************************************************)
(* C8  Rotor thrust.  In a frame of the quadcopter the thrust line of      *)
(* rotor i starts at the hub, position + body_to_world(attitude, arm i),   *)
(* and the segment handed to draw_line_3d has length 0.5 * s^2 for the     *)
(* rotor's speed ratio s (its square is compared).                         *)
(***************************************************************************)
SpeedRatio(i) ==
  RDiv(prevScene.quad.rotor_speeds[i], prevScene.quad.max_rotor_speed)

\* the square of 0.5 * s^2
ThrustSq(s) == RMul(RMul(Q(1, 2), RMul(s, s)), RMul(Q(1, 2), RMul(s, s)))

\* the thrust line of rotor i in the quadcopter's frame: after the main axis
\* each rotor adds its arm, its hub and its thrust line
ThrustLine(i) == scene.shown[1 + 3 * i]

QuadFrame ==
  /\ rop = "render"
  /\ scene.exc = NoException
  /\ scene.shown # None
  /\ scene.rd.objects[1] = "QuadCopter"

C8_ThrustLength ==
  QuadFrame =>
    \A i \in DOMAIN PropellerPositions :
      /\ ThrustLine(i).kind = "line"
      /\ ThrustLine(i).given[1] =
           VecAdd(prevScene.quad.position,
                  body_to_world(prevScene.quad.attitude, PropellerPositions[i]).ret)
      /\ NormSq(VecSub(ThrustLine(i).given[2], ThrustLine(i).given[1]))
           = ThrustSq(SpeedRatio(i))

\* speed ratios 0, 1/2 and 1 in one frame give 0, 0.125 and 0.5, under an
\* attitude off the axes
C8_HalfSpeed ==
  /\ QuadFrame
  /\ prevScene.quad.attitude.roll = 4
  /\ \A s \in {R(0), Q(1, 2), R(1)} :
       \E i \in DOMAIN PropellerPositions :
         /\ SpeedRatio(i) = s
         /\ NormSq(VecSub(ThrustLine(i).given[2], ThrustLine(i).given[1])) = ThrustSq(s)
  /\ \E i \in DOMAIN PropellerPositions :
       NormSq(VecSub(ThrustLine(i).given[2], ThrustLine(i).given[1])) = Q(1, 64)

(***************************************************************************)
(* C10  Viewer lifecycle.  render(close=False) makes a viewer only when    *)
(* there is none and calls draw once on every object, in the order added,  *)
(* with the viewer present; render(close=True) calls no draw and makes no  *)
(* viewer; after close or render(close=True) there is no viewer.           *)
(***************************************************************************)
C10_DrawsEveryObject ==
  /\ (rop = "render" /\ ~rarg) =>
       /\ scene.rd.viewer # None
       /\ prevScene.rd.viewer # None =>
            scene.rd.viewer.bounds = prevScene.rd.viewer.bounds
       /\ scene.calls = [i \in 1..Len(scene.rd.objects) |-> <<i, TRUE>>]
  /\ (rop = "render" /\ rarg) => scene.calls = <<>> /\ scene.rd.viewer = None
  /\ rop = "close" => scene.rd.viewer = None

=============================================================================
